---- MODULE Spec2Model ----
(***************************************************************************)
(* A model of the mind-map widget of src/src/main.js: the canvas           *)
(* (MindMapCanvas), its node views (MindMapNode), its edge views           *)
(* (MindMapEdge) and the window-level drag listeners.                      *)
(*                                                                         *)
(* Numbers.  The scale is kept in tenths (1 = 0.1, 10 = 1.0, 20 = 2.0);   *)
(* coordinates are integers.  Deltas and coordinates range over finite     *)
(* numbers only.                                                           *)
(*                                                                         *)
(* Scheduling.  Lit renders asynchronously: a property assignment marks    *)
(* the element for an update that runs later as a microtask.  The canvas   *)
(* update and each child update are separate steps.  Public methods are    *)
(* called between a canvas update's request and its run, any number of     *)
(* them; pointer events are tasks of the event loop and are delivered only *)
(* when no update is pending.                                              *)
(***************************************************************************)
EXTENDS Integers, Sequences, FiniteSets, TLC

\* ------------------------------------------------------------------ bounds
MaxNodes == 2
MaxEdges == 1
MaxDrags == 2
MaxRun == 26
\* The edges of the edge-sequence specification.
MaxEdgeSeq == 2

\* ------------------------------------------------------- program constants
ScaleMin == 1
ScaleMax == 20
ScaleInit == 10

\* ------------------------------------------------------------ input domains
\* Strings generateId can return (base-36 digits only).
IdSet == {"a", "b"}
\* An identifier holding a double quote: typed into the host's prompt, never generated.
QuoteId == "q\"q"
\* What addEdge is given: two ids that nodes can have, one id twice, and the
\* quoted string as the target and as the source.
EdgeArgs == {<<"a", "b">>, <<"a", "a">>, <<"b", QuoteId>>, <<QuoteId, "a">>}
Contents == {"", "A"}
Coords == {0, 1}
\* Deltas of the canvas's zoom in the full specification: clamped below, clamped
\* above, and from 2.0 back to 1.0 unclamped.
Deltas == {-10, 25}
\* Deltas of the zoom-only specification, the host's steps of 0.1 among them.
ZoomDeltas == {-25, -3, -1, 0, 1, 3, 25}

\* What prompt() returns: null when the dialog is cancelled, else the text.
Null == [cancelled |-> TRUE, text |-> ""]
Text(t) == [cancelled |-> FALSE, text |-> t]

\* What the user gives a prompt for an id: the dialog cancelled, left empty, an id.
PromptResults == {Null, Text(""), Text("a")}
\* What the user gives the prompt for a content: a text of one blank besides.
ContentResults == PromptResults \cup {Text(" ")}
\* The deltas of the Zoom In and Zoom Out buttons.
Steps == {-1, 1}

VARIABLES
    nodes,            \* MindMapCanvas.nodes
    edges,            \* MindMapCanvas.edges
    scale,            \* MindMapCanvas.scale, in tenths
    canvasDirty,      \* the canvas has an update pending
    transform,        \* the scale of the rendered container's transform (0: no render yet)
    nodeViews,        \* the <mind-map-node> elements of the canvas's render tree
    edgeViews,        \* the <mind-map-edge> elements of the canvas's render tree
    windowListeners,  \* the onDrag / onDragEnd closures registered on window
    emitted,          \* history: the node-moved notifications the last step dispatched
    lastEvent,        \* history: the pointer event the last step delivered, if it was one
    presses,          \* history: the presses handled since the last release
    released,         \* history: a release has ended a drag
    run,              \* history: the current run of equal zoom deltas
    host              \* history: the last action of the host shell and the calls it made

vars == <<nodes, edges, scale, canvasDirty, transform, nodeViews, edgeViews,
          windowListeners, emitted, lastEvent, presses, released, run, host>>

\* ------------------------------------------------------------------ helpers
Min(a, b) == IF a < b THEN a ELSE b
Max(a, b) == IF a > b THEN a ELSE b

RECURSIVE RemoveFirst(_, _)
RemoveFirst(s, e) ==
    IF s = <<>> THEN <<>>
    ELSE IF Head(s) = e THEN Tail(s)
    ELSE <<Head(s)>> \o RemoveFirst(Tail(s), e)

NoRun == [from |-> ScaleInit, delta |-> 0, n |-> 0]

NoHost == [action |-> "none", inputs |-> <<>>, calls |-> 0]

\* ------------------------------------------------------------------- canvas
generateId == IdSet

newNode(id, content, x, y) == [id |-> id, content |-> content, x |-> x, y |-> y]

newEdge(id, sourceId, targetId) == [id |-> id, sourceId |-> sourceId, targetId |-> targetId]

\* Mutant of appendNode: the new node is put first.
prependNode(ns, node) == <<node>> \o ns

\* [...this.nodes, newNode] and [...this.edges, newEdge]
appendNode(ns, node) == Append(ns, node)

\* Mutant of appendEdge: the new edge is put first.
prependEdge(es, edge) == <<edge>> \o es

appendEdge(es, edge) == Append(es, edge)

\* Mutants of zoomScale: the upper clamp left out; the lower clamp left out.
zoomScaleNoUpper(s, delta) == Max(ScaleMin, s + delta)

zoomScaleNoLower(s, delta) == Min(ScaleMax, s + delta)

zoomScale(s, delta) == Max(ScaleMin, Min(ScaleMax, s + delta))

\* Mutant of handleNodeMovedNodes: the id is not compared, every node is moved.
handleNodeMovedAll(ns, detail) ==
    [i \in DOMAIN ns |-> [ns[i] EXCEPT !.x = detail.x, !.y = detail.y]]

\* Mutant of handleNodeMovedNodes: x and y of the detail change places.
handleNodeMovedSwapped(ns, detail) ==
    [i \in DOMAIN ns |->
        IF ns[i].id = detail.id
        THEN [ns[i] EXCEPT !.x = detail.y, !.y = detail.x]
        ELSE ns[i]]

\* Mutant of handleNodeMovedNodes: filter for map, the other nodes are dropped.
handleNodeMovedFilter(ns, detail) ==
    LET kept == SelectSeq(ns, LAMBDA node : node.id = detail.id)
    IN [i \in DOMAIN kept |-> [kept[i] EXCEPT !.x = detail.x, !.y = detail.y]]

\* nodes.map(node => node.id === id ? { ...node, x, y } : node)
handleNodeMovedNodes(ns, detail) ==
    [i \in DOMAIN ns |->
        IF ns[i].id = detail.id
        THEN [ns[i] EXCEPT !.x = detail.x, !.y = detail.y]
        ELSE ns[i]]

\* No child view has an update pending.  The child updates a canvas render
\* requests run as microtasks right after it, before any other task: a public
\* method is called, and an event delivered, only once they have run.
ChildrenUpdated ==
    /\ \A i \in DOMAIN nodeViews : ~nodeViews[i].pending
    /\ \A j \in DOMAIN edgeViews : ~edgeViews[j].pending

Init ==
    /\ nodes = <<>>
    /\ edges = <<>>
    /\ scale = ScaleInit
    /\ canvasDirty = TRUE
    /\ transform = 0
    /\ nodeViews = <<>>
    /\ edgeViews = <<>>
    /\ windowListeners = [mousemove |-> <<>>, mouseup |-> <<>>]
    /\ emitted = <<>>
    /\ lastEvent = "none"
    /\ presses = <<>>
    /\ released = FALSE
    /\ run = NoRun
    /\ host = NoHost

addNode(content, x, y) ==
    /\ ChildrenUpdated
    /\ Len(nodes) < MaxNodes
    /\ \E id \in generateId : nodes' = appendNode(nodes, newNode(id, content, x, y))
    /\ canvasDirty' = TRUE
    /\ emitted' = <<>>
    /\ lastEvent' = "none"
    /\ UNCHANGED <<edges, scale, transform, nodeViews, edgeViews, windowListeners, presses, released, run>>

\* addEdge on a canvas that is let hold `max` edges.
addEdgeWithin(max, sourceId, targetId) ==
    /\ ChildrenUpdated
    /\ Len(edges) < max
    /\ \E id \in generateId : edges' = appendEdge(edges, newEdge(id, sourceId, targetId))
    /\ canvasDirty' = TRUE
    /\ emitted' = <<>>
    /\ lastEvent' = "none"
    /\ UNCHANGED <<nodes, scale, transform, nodeViews, edgeViews, windowListeners, presses, released, run>>

addEdge(sourceId, targetId) == addEdgeWithin(MaxEdges, sourceId, targetId)

\* The canvas's methods called by a program, the host shell not involved.
AddNode(content, x, y) == addNode(content, x, y) /\ UNCHANGED host

AddEdge(sourceId, targetId) == addEdge(sourceId, targetId) /\ UNCHANGED host

AddEdgeWithin(max, sourceId, targetId) == addEdgeWithin(max, sourceId, targetId) /\ UNCHANGED host

\* The scale is a reactive property: an assignment of the value it holds requests no update.
zoom(delta) ==
    /\ ChildrenUpdated
    /\ scale' = zoomScale(scale, delta)
    /\ canvasDirty' = (canvasDirty \/ scale' # scale)
    /\ emitted' = <<>>
    /\ lastEvent' = "none"
    /\ UNCHANGED <<nodes, edges, transform, nodeViews, edgeViews, windowListeners, presses, released>>

Zoom(delta) == zoom(delta) /\ UNCHANGED <<run, host>>

\* zoom, with the history of the current run of equal deltas kept: where the run
\* started, its delta, and how many calls it holds so far.
ZoomRun(delta) ==
    /\ run.delta = delta => run.n < MaxRun
    /\ zoom(delta)
    /\ run' = IF run.delta = delta /\ run.n > 0
              THEN [run EXCEPT !.n = run.n + 1]
              ELSE [from |-> scale, delta |-> delta, n |-> 1]
    /\ UNCHANGED host

\* --------------------------------------------------------------- rendering
\* The attributes the canvas's template gives a <mind-map-node>: it binds the
\* property .data and two listeners, and no data-id attribute.
dataIdAttribute(node) == {}

NoBox == [rendered |-> FALSE, content |-> "", left |-> 0, top |-> 0]
NoOutput == [kind |-> "none", startX |-> 0, startY |-> 0, endX |-> 0, endY |-> 0]
EmptyOutput == [NoOutput EXCEPT !.kind = "empty"]
ErrorOutput == [NoOutput EXCEPT !.kind = "error"]

\* Mutant of renderNodeView: the element is created anew in every render pass.
renderNodeViewAnew(views, i, node) ==
    [data |-> node, dataId |-> dataIdAttribute(node), pending |-> TRUE,
     listening |-> FALSE, box |-> NoBox]

\* One <mind-map-node> of the canvas's template: a new element, or the element
\* already at that place with its .data set (an update is requested when it
\* changed).  Records are compared by value: a node replaced by an equal copy
\* requests no update here, and its render would show what is shown already.
renderNodeView(views, i, node) ==
    IF i \in DOMAIN views
    THEN [views[i] EXCEPT !.data = node,
                          !.pending = views[i].pending \/ views[i].data # node]
    ELSE [data |-> node, dataId |-> dataIdAttribute(node), pending |-> TRUE,
          listening |-> FALSE, box |-> NoBox]

renderEdgeView(views, j, edge) ==
    IF j \in DOMAIN views
    THEN [views[j] EXCEPT !.data = edge,
                          !.pending = views[j].pending \/ views[j].data # edge]
    ELSE [data |-> edge, pending |-> TRUE, out |-> NoOutput]

\* MindMapCanvas.render, run by the canvas's pending update.  The updates its
\* last render requested of the child views were queued before it and run first.
CanvasUpdate ==
    /\ canvasDirty
    /\ ChildrenUpdated
    /\ canvasDirty' = FALSE
    /\ transform' = scale
    /\ nodeViews' = [i \in DOMAIN nodes |-> renderNodeView(nodeViews, i, nodes[i])]
    /\ edgeViews' = [j \in DOMAIN edges |-> renderEdgeView(edgeViews, j, edges[j])]
    /\ emitted' = <<>>
    /\ lastEvent' = "none"
    /\ UNCHANGED <<nodes, edges, scale, windowListeners, presses, released, run, host>>

\* MindMapNode.render: the box at (x, y) holding the content.
nodeRender(data) == [rendered |-> TRUE, content |-> data.content, left |-> data.x, top |-> data.y]

\* The update of a node view: render, and on the first one firstUpdated, which
\* registers the mousedown listener.  Child updates run in template order.
NodeViewUpdate(i) ==
    /\ i \in DOMAIN nodeViews
    /\ nodeViews[i].pending
    /\ \A k \in DOMAIN nodeViews : k < i => ~nodeViews[k].pending
    /\ nodeViews' = [nodeViews EXCEPT ![i].pending = FALSE,
                                      ![i].listening = TRUE,
                                      ![i].box = nodeRender(nodeViews[i].data)]
    /\ emitted' = <<>>
    /\ lastEvent' = "none"
    /\ UNCHANGED <<nodes, edges, scale, canvasDirty, transform, edgeViews,
                   windowListeners, presses, released, run, host>>

\* Whether `mind-map-node[data-id="<id>"]` is a selector: a double quote in the
\* id ends the attribute value early and querySelector throws a SyntaxError.
SelectorValid(id) == id # QuoteId

\* parentElement.querySelector(`mind-map-node[data-id="${id}"]`): the first node
\* view of the container whose data-id attribute is id, 0 for null.
querySelector(views, id) ==
    LET m == {i \in DOMAIN views : id \in views[i].dataId}
    IN IF m = {} THEN 0 ELSE CHOOSE i \in m : \A k \in m : i <= k

\* getBoundingClientRect of a node view.  The host is absolutely positioned with
\* no offsets of its own (the left/top of render are on an unpositioned inner
\* div), so the rectangle starts at the container's corner; its size is the
\* box's, scaled by the container's transform.
getBoundingClientRect(view, tf) ==
    [left |-> 0, top |-> 0, width |-> 4 * tf, height |-> 2 * tf]

lineBetween(sourceRect, targetRect) ==
    [kind   |-> "line",
     startX |-> sourceRect.left + sourceRect.width \div 2,
     startY |-> sourceRect.top + sourceRect.height \div 2,
     endX   |-> targetRect.left + targetRect.width \div 2,
     endY   |-> targetRect.top + targetRect.height \div 2]

\* MindMapEdge.render.
edgeRender(data, views, tf) ==
    IF ~SelectorValid(data.sourceId) \/ ~SelectorValid(data.targetId)
    THEN ErrorOutput
    ELSE LET sourceNode == querySelector(views, data.sourceId)
             targetNode == querySelector(views, data.targetId)
         IN IF sourceNode = 0 \/ targetNode = 0
            THEN EmptyOutput
            ELSE lineBetween(getBoundingClientRect(views[sourceNode], tf),
                             getBoundingClientRect(views[targetNode], tf))

\* The update of an edge view: it runs when the view is created or its .data
\* is replaced, after the node views' updates.
EdgeViewUpdate(j) ==
    /\ \A k \in DOMAIN nodeViews : ~nodeViews[k].pending
    /\ j \in DOMAIN edgeViews
    /\ edgeViews[j].pending
    /\ \A k \in DOMAIN edgeViews : k < j => ~edgeViews[k].pending
    /\ edgeViews' = [edgeViews EXCEPT ![j].pending = FALSE,
                                      ![j].out = edgeRender(edgeViews[j].data, nodeViews, transform)]
    /\ emitted' = <<>>
    /\ lastEvent' = "none"
    /\ UNCHANGED <<nodes, edges, scale, canvasDirty, transform, nodeViews,
                   windowListeners, presses, released, run, host>>

\* No update is pending: the microtask queue is empty and the event loop takes
\* the next task.
Quiescent == ~canvasDirty /\ ChildrenUpdated

\* -------------------------------------------------------------------- drag
\* The closure pair onDragStart creates: onDrag and onDragEnd share the
\* press-time pointer position and the press-time position of the view's data.
onDragStart(view, i, clientX, clientY) ==
    [view |-> i, startX |-> clientX, startY |-> clientY,
     startLeft |-> view.data.x, startTop |-> view.data.y]

\* updatePosition: the detail of the node-moved event.
updatePosition(view, x, y) == [id |-> view.data.id, x |-> x, y |-> y]

\* Mutant of onDrag: the delta is added to the position the view holds now,
\* not to the one it held at the press.
onDragAccumulating(c, views, clientX, clientY) ==
    LET dx == clientX - c.startX
        dy == clientY - c.startY
    IN updatePosition(views[c.view], views[c.view].data.x + dx, views[c.view].data.y + dy)

\* Mutant of onDrag: the pointer position taken for the delta, the press-time
\* pointer position forgotten.
onDragNoOrigin(c, views, clientX, clientY) ==
    updatePosition(views[c.view], c.startLeft + clientX, c.startTop + clientY)

\* onDrag: the detail the closure c dispatches for a pointer at (clientX, clientY).
onDrag(c, views, clientX, clientY) ==
    LET dx == clientX - c.startX
        dy == clientY - c.startY
    IN updatePosition(views[c.view], c.startLeft + dx, c.startTop + dy)

\* Mutant of onDragEnd: only the mousemove listener is removed.
onDragEndKeepsUp(c, lst) ==
    [mousemove |-> RemoveFirst(lst.mousemove, c), mouseup |-> lst.mouseup]

\* Mutant of onDragEnd: only the mouseup listener is removed.
onDragEndKeepsMove(c, lst) ==
    [mousemove |-> lst.mousemove, mouseup |-> RemoveFirst(lst.mouseup, c)]

\* onDragEnd of the closure pair c: both of its listeners leave the window.
onDragEnd(c, lst) ==
    [mousemove |-> RemoveFirst(lst.mousemove, c),
     mouseup   |-> RemoveFirst(lst.mouseup, c)]

\* mousedown on the node view i.  A view that has not had its first update has
\* no mousedown listener yet.
MouseDown(i, clientX, clientY) ==
    /\ Quiescent
    /\ i \in DOMAIN nodeViews
    /\ Len(windowListeners.mousemove) < MaxDrags
    /\ Len(windowListeners.mouseup) < MaxDrags
    /\ IF nodeViews[i].listening
       THEN LET c == onDragStart(nodeViews[i], i, clientX, clientY)
            IN /\ windowListeners' = [mousemove |-> Append(windowListeners.mousemove, c),
                                      mouseup   |-> Append(windowListeners.mouseup, c)]
               /\ presses' = Append(presses, [view |-> i, id |-> nodeViews[i].data.id,
                                              px |-> clientX, py |-> clientY,
                                              x0 |-> nodeViews[i].data.x,
                                              y0 |-> nodeViews[i].data.y])
       ELSE UNCHANGED <<windowListeners, presses, released>>
    /\ emitted' = <<>>
    /\ lastEvent' = "mousedown"
    /\ UNCHANGED <<nodes, edges, scale, canvasDirty, transform, nodeViews, edgeViews, released, run, host>>

\* The details the mousemove listeners of the window dispatch, in registration order.
dragDetails(listeners, views, clientX, clientY) ==
    [k \in DOMAIN listeners |-> onDrag(listeners[k], views, clientX, clientY)]

\* The canvas's nodes after handleNodeMoved has taken each detail in turn.
RECURSIVE reconcile(_, _)
reconcile(ns, details) ==
    IF details = <<>> THEN ns
    ELSE reconcile(handleNodeMovedNodes(ns, Head(details)), Tail(details))

InCoords(detail) == detail.x \in Coords /\ detail.y \in Coords

\* mousemove on the window: every registered onDrag runs; each dispatches a
\* node-moved event from its view, which the canvas's handleNodeMoved takes
\* synchronously.
MouseMove(clientX, clientY) ==
    /\ Quiescent
    /\ LET details == dragDetails(windowListeners.mousemove, nodeViews, clientX, clientY)
       IN /\ \A k \in DOMAIN details : InCoords(details[k])
          /\ emitted' = details
          /\ lastEvent' = "mousemove"
          /\ nodes' = reconcile(nodes, details)
          /\ canvasDirty' = (details # <<>>)
    /\ UNCHANGED <<edges, scale, transform, nodeViews, edgeViews, windowListeners, presses, released, run, host>>

\* The window's listeners after every registered onDragEnd has run.
RECURSIVE release(_, _)
release(ends, lst) ==
    IF ends = <<>> THEN lst
    ELSE release(Tail(ends), onDragEnd(Head(ends), lst))

\* mouseup on the window, wherever the pointer is.
MouseUp ==
    /\ Quiescent
    /\ windowListeners' = release(windowListeners.mouseup, windowListeners)
    /\ presses' = <<>>
    /\ released' = (released \/ presses # <<>>)
    /\ emitted' = <<>>
    /\ lastEvent' = "mouseup"
    /\ UNCHANGED <<nodes, edges, scale, canvasDirty, transform, nodeViews, edgeViews, run, host>>

\* A node-moved event reaching the canvas's listener on a node view, with any
\* detail (the event bubbles and is composed: anything below a node view can
\* dispatch it).  Like the pointer events it is a task of the event loop.
handleNodeMoved(id, x, y) ==
    /\ Quiescent
    /\ nodeViews # <<>>
    /\ nodes' = handleNodeMovedNodes(nodes, [id |-> id, x |-> x, y |-> y])
    /\ canvasDirty' = TRUE
    /\ emitted' = <<[id |-> id, x |-> x, y |-> y]>>
    /\ lastEvent' = "none"
    /\ UNCHANGED <<edges, scale, transform, nodeViews, edgeViews, windowListeners, presses, released, run, host>>

\* ------------------------------------------------------------- host shell
\* The value of a prompt result in a condition: null and "" are falsy.
\* Mutant of truthy: only null is falsy, the empty text counts as input.
truthyNotNull(v) == ~v.cancelled

truthy(v) == ~v.cancelled /\ v.text # ""

\* MindMapApp.addNode: one prompt, then the canvas's addNode at a random place
\* when the content is truthy.
appAddNode(content, x, y) ==
    /\ Quiescent
    /\ IF truthy(content)
       THEN /\ addNode(content.text, x, y)
            /\ host' = [action |-> "addNode", inputs |-> <<content>>, calls |-> 1]
       ELSE /\ host' = [action |-> "addNode", inputs |-> <<content>>, calls |-> 0]
            /\ emitted' = <<>>
            /\ lastEvent' = "none"
            /\ UNCHANGED <<nodes, edges, scale, canvasDirty, transform, nodeViews, edgeViews,
                           windowListeners, presses, released, run>>

\* MindMapApp.addEdge: two prompts, then the canvas's addEdge when both ids are truthy.
appAddEdge(sourceId, targetId) ==
    /\ Quiescent
    /\ IF truthy(sourceId) /\ truthy(targetId)
       THEN /\ addEdge(sourceId.text, targetId.text)
            /\ host' = [action |-> "addEdge", inputs |-> <<sourceId, targetId>>, calls |-> 1]
       ELSE /\ host' = [action |-> "addEdge", inputs |-> <<sourceId, targetId>>, calls |-> 0]
            /\ emitted' = <<>>
            /\ lastEvent' = "none"
            /\ UNCHANGED <<nodes, edges, scale, canvasDirty, transform, nodeViews, edgeViews,
                           windowListeners, presses, released, run>>

\* MindMapApp.zoom, from the Zoom In and Zoom Out buttons.
appZoom(delta) ==
    /\ Quiescent
    /\ zoom(delta)
    /\ host' = [action |-> "zoom", inputs |-> <<>>, calls |-> 1]
    /\ UNCHANGED run

\* ----------------------------------------------------------- specifications
\* The canvas and its render tree.  Node-moved events reach the canvas with any
\* detail, the ones a drag dispatches among them.
Next ==
    \/ \E content \in Contents, x \in Coords, y \in Coords : AddNode(content, x, y)
    \/ \E p \in EdgeArgs : AddEdge(p[1], p[2])
    \/ \E delta \in Deltas : Zoom(delta)
    \/ CanvasUpdate
    \/ \E i \in 1..MaxNodes : NodeViewUpdate(i)
    \/ \E j \in 1..MaxEdges : EdgeViewUpdate(j)
    \/ \E id \in IdSet, x \in Coords, y \in Coords : handleNodeMoved(id, x, y)

Spec == Init /\ [][Next]_vars

\* The drag of the node views, on a canvas that holds nodes only.
NextDrag ==
    \/ \E x \in Coords, y \in Coords : AddNode("A", x, y)
    \/ Zoom(25)
    \/ CanvasUpdate
    \/ \E i \in 1..MaxNodes : NodeViewUpdate(i)
    \/ \E i \in 1..MaxNodes, clientX \in Coords, clientY \in Coords : MouseDown(i, clientX, clientY)
    \/ \E clientX \in Coords, clientY \in Coords : MouseMove(clientX, clientY)
    \/ MouseUp

SpecDrag == Init /\ [][NextDrag]_vars

\* The edge sequence, on a canvas whose nodes are added at one place and moved
\* to one other, among the other operations.
NextEdges ==
    \/ \E p \in EdgeArgs : AddEdgeWithin(MaxEdgeSeq, p[1], p[2])
    \/ AddNode("A", 0, 0)
    \/ Zoom(25)
    \/ CanvasUpdate
    \/ \E i \in 1..MaxNodes : NodeViewUpdate(i)
    \/ \E j \in 1..MaxEdgeSeq : EdgeViewUpdate(j)
    \/ \E id \in IdSet : handleNodeMoved(id, 1, 1)

SpecEdges == Init /\ [][NextEdges]_vars

\* The render passes, on a canvas that holds nodes and edges while node views
\* are dragged: the nodes are added at one place and pressed at one place.
NextRender ==
    \/ AddNode("A", 0, 0)
    \/ \E p \in EdgeArgs : AddEdge(p[1], p[2])
    \/ Zoom(25)
    \/ CanvasUpdate
    \/ \E i \in 1..MaxNodes : NodeViewUpdate(i)
    \/ \E j \in 1..MaxEdges : EdgeViewUpdate(j)
    \/ \E i \in 1..MaxNodes : MouseDown(i, 0, 0)
    \/ \E clientX \in Coords, clientY \in Coords : MouseMove(clientX, clientY)
    \/ MouseUp

SpecRender == Init /\ [][NextRender]_vars

\* The host shell over the canvas: every change of the canvas comes from a
\* button of the shell.
NextHost ==
    \/ \E content \in ContentResults, x \in Coords, y \in Coords : appAddNode(content, x, y)
    \/ \E sourceId \in PromptResults, targetId \in PromptResults : appAddEdge(sourceId, targetId)
    \/ \E delta \in Steps : appZoom(delta)
    \/ CanvasUpdate
    \/ \E i \in 1..MaxNodes : NodeViewUpdate(i)
    \/ \E j \in 1..MaxEdges : EdgeViewUpdate(j)

SpecHost == Init /\ [][NextHost]_vars

\* The canvas under zoom alone, with the host's steps among the deltas.
NextZoom ==
    \/ \E delta \in ZoomDeltas : ZoomRun(delta)
    \/ CanvasUpdate

SpecZoom == Init /\ [][NextZoom]_vars

\* ------------------------------------------------------------------ claims
\* The sum s + d brought into the closed range [0.1, 2.0].
Clamped(v) == IF v < ScaleMin THEN ScaleMin ELSE IF v > ScaleMax THEN ScaleMax ELSE v

\* C1: in every state reachable from the initial canvas by addNode, addEdge,
\* zoom and node-moved reconciliations, the scale lies in [0.1, 2.0].
C1_ScaleInRange == ScaleMin <= scale /\ scale <= ScaleMax

\* C1 witness: a canvas with a node and an edge, rendered at the upper limit and
\* since zoomed out to the lower limit.
C1_Witness ==
    /\ nodes # <<>> /\ edges # <<>>
    /\ transform = ScaleMax
    /\ scale = ScaleMin

\* C2: zoom(d) sets the scale to max(0.1, min(2.0, s + d)) for every scale s and
\* delta d; at 2.0 a positive delta leaves it at 2.0, at 0.1 a negative delta
\* leaves it at 0.1, and the 25th zoom(0.1) of a run started at 1.0 ends at 2.0.
C2_ZoomClamped ==
    [][\A d \in ZoomDeltas :
          ZoomRun(d) =>
            /\ scale' = Clamped(scale + d)
            /\ (scale = ScaleMax /\ d > 0) => scale' = ScaleMax
            /\ (scale = ScaleMin /\ d < 0) => scale' = ScaleMin
            /\ (run'.from = ScaleInit /\ run'.delta = 1 /\ run'.n = 25) => scale' = ScaleMax]_vars

\* C2 witness: zoom(0.1) has been applied 25 times in a row from scale 1.0 and
\* the scale is 2.0.
C2_Witness ==
    /\ run.from = ScaleInit /\ run.delta = 1 /\ run.n = 25
    /\ scale = ScaleMax

\* C3: no two entries of the node sequence share an id.
C3_NodeIdsUnique ==
    \A i, k \in DOMAIN nodes : i # k => nodes[i].id # nodes[k].id

\* The node views of the render tree whose node has the id.
Mounted(id) == {i \in DOMAIN nodeViews : nodeViews[i].data.id = id}

\* Both ends of the edge are ids of nodes the canvas has rendered.
Resolves(edge) == Mounted(edge.sourceId) # {} /\ Mounted(edge.targetId) # {}

\* C4: when the sourceId and the targetId of an edge are both ids of rendered
\* nodes, the render of its edge view produces a line.
C4_ResolvedEdgeRendersLine ==
    [][\A j \in 1..MaxEdges :
          (EdgeViewUpdate(j) /\ Resolves(edgeViews[j].data))
            => edgeViews'[j].out.kind = "line"]_vars

\* The first node view of the render tree whose node has the id.
FirstMounted(id) == CHOOSE i \in Mounted(id) : \A k \in Mounted(id) : i <= k

\* The line between the current centers of the two node views of an edge.
CurrentLine(edge) ==
    lineBetween(getBoundingClientRect(nodeViews[FirstMounted(edge.sourceId)], transform),
                getBoundingClientRect(nodeViews[FirstMounted(edge.targetId)], transform))

\* C7: once every pending render has run, the output of every edge view whose
\* two nodes are mounted is the line between the current centers of their views.
C7_EdgesFollowState ==
    Quiescent =>
        \A j \in DOMAIN edgeViews :
            Resolves(edgeViews[j].data) => edgeViews[j].out = CurrentLine(edgeViews[j].data)

\* C8: the render of an edge one of whose ends matches no mounted node view is
\* the empty render, raises no error, and leaves the nodes, the edges and the
\* scale as they were.
C8_UnresolvedEdgeRendersNothing ==
    [][\A j \in 1..MaxEdges :
          (EdgeViewUpdate(j) /\ ~Resolves(edgeViews[j].data))
            => /\ edgeViews'[j].out = EmptyOutput
               /\ nodes' = nodes /\ edges' = edges /\ scale' = scale]_vars

\* The notification a press asks of a pointer at (clientX, clientY): the id of
\* the pressed node, and its press-time position moved by the pointer's
\* displacement since the press.
Expected(press, clientX, clientY) ==
    [id |-> press.id,
     x  |-> press.x0 + (clientX - press.px),
     y  |-> press.y0 + (clientY - press.py)]

\* C5: a pointer-move to P1 during a drag emits, for the press at P0 on the
\* node at (x0, y0), a notification with that node's id and the position
\* (x0 + (P1.x - P0.x), y0 + (P1.y - P0.y)); every notification emitted is
\* such a one.
C5_DragNotification ==
    [][\A clientX \in Coords, clientY \in Coords :
          MouseMove(clientX, clientY) =>
            emitted' = [k \in DOMAIN presses |-> Expected(presses[k], clientX, clientY)]]_vars

\* C5 witness: a move has emitted a notification that differs from the press-time
\* position in x and in y, for a press away from the origin.
C5_Witness ==
    /\ lastEvent = "mousemove"
    /\ Len(presses) = 1 /\ Len(emitted) = 1
    /\ presses[1].px # 0 /\ presses[1].py = 0
    /\ emitted[1].x # presses[1].x0
    /\ emitted[1].y # presses[1].y0

\* C6: a pointer-move delivered while no drag is on (before any press, or after
\* the release that follows one) emits no notification and moves no node.
C6_NoNotificationWhenIdle ==
    [][\A clientX \in Coords, clientY \in Coords :
          (MouseMove(clientX, clientY) /\ presses = <<>>)
            => (emitted' = <<>> /\ nodes' = nodes)]_vars

\* C6 witness: after the release that ended a drag, a move was delivered with no
\* drag on, and nothing was emitted.
C6_Witness ==
    /\ released
    /\ lastEvent = "mousemove"
    /\ presses = <<>>
    /\ emitted = <<>>
    /\ \E i \in DOMAIN nodeViews : nodeViews[i].listening

\* C9: a node-moved notification whose id is the id of no node leaves the node
\* sequence, the edge sequence and the scale as they are.
C9_UnknownIdNoOp ==
    [][\A id \in IdSet, x \in Coords, y \in Coords :
          (handleNodeMoved(id, x, y) /\ \A i \in DOMAIN nodes : nodes[i].id # id)
            => (nodes' = nodes /\ edges' = edges /\ scale' = scale)]_vars

\* C9 witness: the canvas has just taken a notification for an id none of its
\* nodes has, at a position none of them is at.
C9_Witness ==
    /\ nodes # <<>>
    /\ Len(emitted) = 1
    /\ lastEvent = "none"
    /\ \A i \in DOMAIN nodes :
          /\ nodes[i].id # emitted[1].id
          /\ <<nodes[i].x, nodes[i].y>> # <<emitted[1].x, emitted[1].y>>

\* C10: addNode(content, x, y) appends exactly one node with that content, x
\* and y, leaves every earlier entry at its index, and leaves the edges and the
\* scale unchanged.
C10_AddNodeAppends ==
    [][\A content \in Contents, x \in Coords, y \in Coords :
          addNode(content, x, y) =>
            /\ Len(nodes') = Len(nodes) + 1
            /\ \A i \in DOMAIN nodes : nodes'[i] = nodes[i]
            /\ nodes'[Len(nodes')].content = content
            /\ nodes'[Len(nodes')].x = x
            /\ nodes'[Len(nodes')].y = y
            /\ edges' = edges /\ scale' = scale]_vars

\* C10 witness: two addNode calls, the first with the empty content, are listed
\* in call order, beside an edge and a changed scale.
C10_Witness ==
    /\ Len(nodes) = 2
    /\ nodes[1].content = "" /\ nodes[1].x = 1 /\ nodes[1].y = 0
    /\ nodes[2].content = "A" /\ nodes[2].x = 0 /\ nodes[2].y = 1
    /\ nodeViews = <<>>
    /\ edges # <<>> /\ scale # ScaleInit

\* C11: addEdge(sourceId, targetId) appends exactly one edge carrying the two
\* ids, whether or not they are ids of nodes and also when they are equal, and
\* leaves the nodes and the scale unchanged; no step changes or removes an edge
\* that is in the edge sequence.
C11_AddEdgeAppends ==
    [][/\ \A p \in EdgeArgs :
            addEdgeWithin(MaxEdgeSeq, p[1], p[2]) =>
              /\ Len(edges') = Len(edges) + 1
              /\ edges'[Len(edges')].sourceId = p[1]
              /\ edges'[Len(edges')].targetId = p[2]
              /\ nodes' = nodes /\ scale' = scale
       /\ \A j \in DOMAIN edges : j \in DOMAIN edges' /\ edges'[j] = edges[j]]_vars

\* C11 witness: an edge from the id of no node and, after it, an edge from a
\* node to itself are both in the sequence, in that order, once a node was
\* moved and the scale changed.
C11_Witness ==
    /\ Len(edges) = 2
    /\ edges[1].sourceId = QuoteId
    /\ edges[2].sourceId = "a" /\ edges[2].targetId = "a"
    /\ \E i \in DOMAIN nodes : nodes[i].id = "a" /\ nodes[i].x = 1
    /\ scale # ScaleInit
    /\ emitted # <<>>

\* A prompt that was cancelled or left blank.
Blank(v) == v.cancelled \/ v.text = ""

\* C12: in the host shell, addNode with a cancelled or blank content and
\* addEdge with either input cancelled or blank call nothing and change no
\* canvas state; with non-empty input each calls the canvas's operation once:
\* one node with the content, or one edge with the two ids, is appended.
C12_HostSkipsBlank ==
    [][/\ \A content \in ContentResults, x \in Coords, y \in Coords :
            appAddNode(content, x, y) =>
              IF Blank(content)
              THEN host'.calls = 0 /\ UNCHANGED <<nodes, edges, scale, canvasDirty>>
              ELSE /\ host'.calls = 1
                   /\ Len(nodes') = Len(nodes) + 1
                   /\ \A i \in DOMAIN nodes : nodes'[i] = nodes[i]
                   /\ nodes'[Len(nodes')].content = content.text
                   /\ nodes'[Len(nodes')].x = x /\ nodes'[Len(nodes')].y = y
                   /\ UNCHANGED <<edges, scale>>
       /\ \A sourceId \in PromptResults, targetId \in PromptResults :
            appAddEdge(sourceId, targetId) =>
              IF Blank(sourceId) \/ Blank(targetId)
              THEN host'.calls = 0 /\ UNCHANGED <<nodes, edges, scale, canvasDirty>>
              ELSE /\ host'.calls = 1
                   /\ Len(edges') = Len(edges) + 1
                   /\ \A j \in DOMAIN edges : edges'[j] = edges[j]
                   /\ edges'[Len(edges')].sourceId = sourceId.text
                   /\ edges'[Len(edges')].targetId = targetId.text
                   /\ UNCHANGED <<nodes, scale>>]_vars

\* C12 witness: a content of one blank has become a node, and the last action
\* of the shell, addEdge with its second prompt cancelled, called nothing.
C12_Witness ==
    /\ \E i \in DOMAIN nodes : nodes[i].content = " "
    /\ host = [action |-> "addEdge", inputs |-> <<Text("a"), Null>>, calls |-> 0]
    /\ edges = <<>>

\* C13: nodes are never deleted and only their position is mutated: no step
\* shrinks the node sequence, and every node keeps its index, its id and its
\* content in every step.
C13_NodesKept ==
    [][\A i \in DOMAIN nodes :
         /\ i \in DOMAIN nodes'
         /\ nodes'[i].id = nodes[i].id
         /\ nodes'[i].content = nodes[i].content]_vars

\* C13 witness: of two nodes with different ids the second has just been moved
\* by a notification, next to an edge and under a changed scale.
C13_Witness ==
    /\ Len(nodes) = 2
    /\ nodes[1].id # nodes[2].id
    /\ emitted = <<[id |-> nodes[2].id, x |-> 1, y |-> 1]>>
    /\ nodes[2].x = 1 /\ nodes[2].y = 1
    /\ nodes[1].content = "A"
    /\ edges # <<>>
    /\ scale # ScaleInit

\* A render pass: of the canvas, of a node view, of an edge view.
RenderPass ==
    \/ CanvasUpdate
    \/ \E i \in 1..MaxNodes : NodeViewUpdate(i)
    \/ \E j \in 1..MaxEdges : EdgeViewUpdate(j)

\* The canvas's state is the one its last render pass took.
CanvasRendered ==
    /\ transform = scale
    /\ Len(nodeViews) = Len(nodes) /\ \A i \in DOMAIN nodes : nodeViews[i].data = nodes[i]
    /\ Len(edgeViews) = Len(edges) /\ \A j \in DOMAIN edges : edgeViews[j].data = edges[j]

\* C14: a render pass of the canvas, a node view or an edge view changes
\* neither the nodes, the edges, the scale nor the drag listeners; a canvas
\* pass over the state its last pass took leaves the render tree as it is, and
\* node views that have rendered equal data show equal boxes.
C14_RenderPure ==
    [][/\ RenderPass => UNCHANGED <<nodes, edges, scale, windowListeners>>
       /\ CanvasUpdate /\ CanvasRendered => UNCHANGED <<transform, nodeViews, edgeViews>>
       /\ RenderPass =>
            \A i \in DOMAIN nodeViews', k \in DOMAIN nodeViews' :
                /\ ~nodeViews'[i].pending /\ ~nodeViews'[k].pending
                /\ nodeViews'[i].data = nodeViews'[k].data
                => nodeViews'[i].box = nodeViews'[k].box]_vars

\* C14 witness: while a drag is on, the canvas, the node views and the edge
\* view have all rendered the moved node, the edge and the changed scale.
C14_Witness ==
    /\ windowListeners.mousemove # <<>>
    /\ Quiescent
    /\ transform = ScaleMax
    /\ \E i \in DOMAIN nodeViews : nodeViews[i].box.rendered /\ nodeViews[i].box.left = 1
    /\ \E j \in DOMAIN edgeViews : edgeViews[j].out.kind = "empty"

\* C15: a node-moved notification (id, x, y) whose id is the id of a node puts
\* the nodes with that id at (x, y) and changes nothing else: the nodes with
\* another id keep their x and y, every node keeps its id, content and index,
\* and the edges and the scale are unchanged.
C15_NodeMovedMovesMatching ==
    [][\A id \in IdSet, x \in Coords, y \in Coords :
          (handleNodeMoved(id, x, y) /\ \E i \in DOMAIN nodes : nodes[i].id = id)
            => /\ Len(nodes') = Len(nodes)
               /\ \A i \in DOMAIN nodes :
                    /\ nodes'[i].id = nodes[i].id
                    /\ nodes'[i].content = nodes[i].content
                    /\ IF nodes[i].id = id
                       THEN nodes'[i].x = x /\ nodes'[i].y = y
                       ELSE nodes'[i].x = nodes[i].x /\ nodes'[i].y = nodes[i].y
               /\ edges' = edges /\ scale' = scale]_vars

\* C15 witness: the first of two nodes has just been moved to (1, 0) by a
\* notification for its id, the second, with another id, is at (0, 1).
C15_Witness ==
    /\ Len(nodes) = 2
    /\ nodes[1].id # nodes[2].id
    /\ emitted = <<[id |-> nodes[1].id, x |-> 1, y |-> 0]>>
    /\ lastEvent = "none"
    /\ nodes[1].x = 1 /\ nodes[1].y = 0
    /\ nodes[2].x = 0 /\ nodes[2].y = 1
    /\ edges # <<>>

\* C16: the mousemove and the mouseup listener of a drag are registered
\* together at the press, one of each, and removed together at the next
\* release: after a release the window holds no drag listener, no other step
\* adds or removes one, and the window holds as many mousemove listeners as
\* mouseup listeners in every state.
C16_ListenersPaired ==
    [][/\ Len(windowListeners'.mousemove) = Len(windowListeners'.mouseup)
       /\ \A i \in 1..MaxNodes, clientX \in Coords, clientY \in Coords :
            (MouseDown(i, clientX, clientY) /\ nodeViews[i].listening)
              => /\ Len(windowListeners'.mousemove) = Len(windowListeners.mousemove) + 1
                 /\ Len(windowListeners'.mouseup) = Len(windowListeners.mouseup) + 1
                 /\ \A k \in DOMAIN windowListeners.mousemove :
                        /\ windowListeners'.mousemove[k] = windowListeners.mousemove[k]
                        /\ windowListeners'.mouseup[k] = windowListeners.mouseup[k]
       /\ MouseUp => windowListeners' = [mousemove |-> <<>>, mouseup |-> <<>>]
       /\ (lastEvent' # "mousedown" /\ lastEvent' # "mouseup")
            => windowListeners' = windowListeners]_vars

\* C16 witness: a drag was ended by a release, and since then one view was
\* pressed twice: two listeners of each kind are registered.
C16_Witness ==
    /\ released
    /\ lastEvent = "mousedown"
    /\ Len(windowListeners.mousemove) = 2
    /\ Len(windowListeners.mouseup) = 2
    /\ windowListeners.mousemove[1].view = windowListeners.mousemove[2].view

\* The views pressed since the last release.
Pressed == {presses[k].view : k \in DOMAIN presses}

\* C17: at most one drag is on per node view: between a press on a view and
\* the next release, each pointer-move makes that view emit exactly one
\* node-moved notification, also when the view was pressed a second time
\* before any release.
C17_OneNotificationPerMove ==
    [][\A clientX \in Coords, clientY \in Coords :
          MouseMove(clientX, clientY) =>
            \A i \in Pressed :
                Cardinality({k \in DOMAIN emitted' : windowListeners.mousemove[k].view = i}) = 1]_vars

\* C18: drag positions do not accumulate: while the one press at P0 on a node
\* stored at (x0, y0) is on, after every pointer-move, to Pn, the canvas stores
\* the node at (x0 + (Pn.x - P0.x), y0 + (Pn.y - P0.y)), whatever moves came
\* before, the canvas having rendered each into the view, and whatever the
\* scale is.
C18_DragFromPressPosition ==
    [][\A clientX \in Coords, clientY \in Coords :
          (MouseMove(clientX, clientY) /\ Len(presses) = 1)
            => LET press == presses[1]
               IN /\ nodes'[press.view].id = press.id
                  /\ nodes'[press.view].x = press.x0 + (clientX - press.px)
                  /\ nodes'[press.view].y = press.y0 + (clientY - press.py)]_vars

\* C18 witness: under a changed scale, a node pressed at (1, 0) where it was
\* stored at (1, 0) is stored at (0, 1) after a move to (0, 1), and the view
\* holds a position that is neither.
C18_Witness ==
    /\ lastEvent = "mousemove"
    /\ Len(presses) = 1
    /\ presses[1].px = 1 /\ presses[1].py = 0
    /\ presses[1].x0 = 1 /\ presses[1].y0 = 0
    /\ nodes[presses[1].view].x = 0 /\ nodes[presses[1].view].y = 1
    /\ nodeViews[presses[1].view].data.x = 0 /\ nodeViews[presses[1].view].data.y = 0
    /\ scale = ScaleMax

====
